---------------------------- MODULE Spec2Model ----------------------------
(***************************************************************************)
(* A model of MCSmaker's manager.py: the resumable fetcher                 *)
(* (download_with_resume), the session naming (safe_name, _session_name)   *)
(* and the screen-based session supervisor (start_server_screen, ...).     *)
(*                                                                         *)
(* The specifications share the module, one per component; each keeps      *)
(* the other components' variables frozen:                                 *)
(*   Spec      the fetcher against an arbitrary HTTP server                *)
(*   SpecName  session names of pairs of instance directories              *)
(*   SpecSup   the supervisor against the screen multiplexer               *)
(*   SpecBackup  backup_server around the supervisor and the file system   *)
(*   SpecTail  tail_console over the texts of a log file                   *)
(*   SpecRam   normalize_ram and warn_if_heap_too_big                      *)
(*   SpecMeta  create_server_folder and read_server_meta on one instance   *)
(*   SpecLoss  the same, in a directory whose descriptor can get lost      *)
(*   SpecUpdate  self_update against what the download URL delivers        *)
(***************************************************************************)
EXTENDS Integers, Sequences, FiniteSets, TLC

\* ------------------------------------------------------------------ bounds
\* Longest server object and longest initial file, in bytes.
MaxLen == 3
\* Invocations of download_with_resume in one behaviour.
MaxCalls == 2
\* 416 answers the server gives within one invocation (recursion depth cap).
MaxRestarts == 2

\* Longest base name of an instance directory, in characters.
MaxName == 2
\* Sessions the multiplexer holds for one instance directory.
MaxSessions == 2

\* Invocations of backup_server in one behaviour.
MaxBackups == 2
\* The last tick of the wall clock.
MaxTicks == 7

\* Longest text of a log file, in characters.
MaxText == 4

\* Longest memory quantity the operator types (beside the literal cases), in
\* characters.
MaxRam == 3

\* Invocations of create_server_folder in one behaviour.
MaxProv == 2

\* Longest CURRENT_VERSION of a downloaded file (beside the literal cases), in
\* characters.
MaxVer == 3

\* The byte values files are made of.
Bytes == {0, 1}

\* ------------------------------------------------------------- sequences
RECURSIVE SeqsUpTo(_, _)
\* All sequences over S of length at most n.
SeqsUpTo(S, n) ==
    IF n = 0 THEN {<<>>}
    ELSE LET shorter == SeqsUpTo(S, n - 1)
         IN  shorter \cup {Append(s, x) : s \in {t \in shorter : Len(t) = n - 1}, x \in S}

Min(a, b) == IF a <= b THEN a ELSE b

\* s without its first n elements.
Drop(s, n) == SubSeq(s, n + 1, Len(s))
\* The first n elements of s.
Take(s, n) == SubSeq(s, 1, Min(n, Len(s)))

IsPrefix(p, s) == Len(p) <= Len(s) /\ SubSeq(s, 1, Len(p)) = p

\* ------------------------------------------------------------ filesystem
\* A path holds a byte sequence, or nothing: NoFile is no byte sequence.
NoFile == << -1 >>
Exists(f) == f # NoFile
Files == SeqsUpTo(Bytes, MaxLen)

\* ================================================================ variables
VARIABLES
    \* --- resumable fetcher
    content,    \* the object the server holds at the URL
    dest,       \* the file at the destination path
    part,       \* the file at destination + ".part"
    pc,         \* position of the caller inside download_with_resume
    range,      \* headers["Range"]: the offset of "bytes=<offset>-", or NoRange
    body,       \* bytes of the response body the server has still to deliver
    result,     \* how the last invocation ended: "none", "true", "false", "raised"
    restarts,   \* recursive re-entries (after 416) of the current invocation
    requests,   \* urlopen calls issued so far
    calls,      \* invocations so far
    hist,       \* history of the current invocation: the partial file at entry, the last answer, how its stream ended
    init0,      \* the files before the first invocation
    \* --- session names
    dirA, dirB, nameA, nameB,
    \* --- supervisor
    sessions,   \* per instance directory, the live screen sessions started in it
    jar,        \* per instance, whether its runtime artifact exists
    logf,       \* per instance, whether its screen.log exists
    screenOk,   \* whether GNU screen is installed
    supRes,     \* what the last supervisor call returned
    supLast,    \* the last supervisor call and the message it printed
    supPc,      \* position of the operator's call in progress ("idle": none)
    supCur,     \* the instance the call in progress is about
    polls,      \* sleeps of stop's wait loop so far
    supLog,     \* what the current (or last) call asked of the multiplexer
    \* --- backup
    tree,       \* the files below the instance directory, as paths relative to it
    archives,   \* per archive path (destination directory, timestamp): its entries, or NoArchive
    now,        \* the wall clock, in ticks
    autosave,   \* per instance, whether its server's periodic autosave is enabled
    bkDest,     \* dest_dir of the backup in progress
    bkInclude,  \* include_logs of the backup in progress
    bkRunning,  \* the local "running" of the backup in progress
    bkOut,      \* out_zip of the backup in progress
    bkDone,     \* the archive paths returned by the backups so far, oldest first
    bkCalls,    \* invocations of backup_server so far
    \* --- log tail
    tailText,   \* the text of the instance's screen.log, or NoText
    tailOut,    \* the lines the last tail_console printed
    tailRes,    \* the last tail_console call: its lines argument and the message it printed
    \* --- memory quantities
    ramIn,      \* the text given to normalize_ram
    ramFallback,\* the fallback given to normalize_ram
    ramOut,     \* what normalize_ram returned, or NoRam before the call
    hostTotal,  \* MemTotal of /proc/meminfo in MB, or NoTotal when it cannot be read
    warned,     \* warn_if_heap_too_big on ramOut: "none" (not called), "silent", "warned"
    \* --- descriptor store
    metaFile,   \* the text of the instance's mcsmeta.json, or NoMeta
    startSh,    \* the instance's start.sh, or NoScript
    metaOut,    \* what the last read_server_meta returned, or NoDict before any
    provPc,     \* position of the caller inside create_server_folder ("idle": none)
    provArgs,   \* version_id, loader and memory of the current (or last) create_server_folder
    provRes,    \* how the last create_server_folder ended: "none", "true", "false", "raised"
    metaWrites, \* writes of mcsmeta.json by the current (or last) create_server_folder
    provCalls,  \* invocations of create_server_folder so far
    instJars,   \* names of the jar files in the instance directory
    updCur,     \* CURRENT_VERSION of the running program
    updGot,     \* what the download of REMOTE_MANAGER_URL gives
    updProg,    \* the program file: "old", or "new" (the downloaded file)
    updRes      \* how self_update ended: "none", "false", "restarted"

fetchVars == <<content, dest, part, pc, range, body, result, restarts, requests, calls, hist, init0>>
nameVars  == <<dirA, dirB, nameA, nameB>>
supVars   == <<sessions, jar, logf, screenOk, supRes, supLast, supPc, supCur, polls, supLog>>
bkVars    == <<tree, archives, now, autosave, bkDest, bkInclude, bkRunning, bkOut, bkDone, bkCalls>>
tailVars  == <<tailText, tailOut, tailRes>>
ramVars   == <<ramIn, ramFallback, ramOut, hostTotal, warned>>
metaVars  == <<metaFile, startSh, metaOut, provPc, provArgs, provRes, metaWrites, provCalls,
               instJars>>
updVars   == <<updCur, updGot, updProg, updRes>>
utilVars  == <<tailVars, ramVars, metaVars, updVars>>
vars      == <<fetchVars, nameVars, supVars, bkVars, utilVars>>


\* ================================================= resumable fetcher
\* headers without a "Range" entry (manager.py line 189).
NoRange == -1
\* The read block of the streaming loop, scaled from 1024 * 1024 bytes.
Block == 2

\* Mutant: the short-circuit is missing.
AlreadyThere_Never(d) == FALSE
\* dest.exists(), the existing-artifact short-circuit.
AlreadyThere(d) == Exists(d)

\* part.stat().st_size: the resume offset.
ResumeOffset(p) == Len(p)

\* headers["Range"] as download_with_resume sets it from the partial file.
RangeHeader(p) == IF Exists(p) THEN ResumeOffset(p) ELSE NoRange

\* Mutant: the partial file is opened with "wb", which truncates it.
OpenAppend_Truncating(p) == <<>>
\* part.open("ab"): the partial file is created empty when absent, kept otherwise.
OpenAppend(p) == IF Exists(p) THEN p ELSE <<>>

\* out.write(chunk) on a file opened for appending.
WriteChunk(p, chunk) == p \o chunk

\* Mutant: the partial file is copied to the destination and left behind.
Replace_Copy(p, d) == <<p, p>>
\* part.replace(dest): the pair <<dest, part>> after the rename.
Replace(p, d) == <<p, NoFile>>

\* part.unlink(missing_ok=True)
Unlink(p) == NoFile

\* What the server answers a successful request with: the whole object (status
\* 200, also when it ignores a Range header), or the object from the requested
\* offset on (status 206, for an offset inside the object or at its end).
ResponseKinds(r) ==
    {"full"} \cup (IF r # NoRange /\ r <= Len(content) THEN {"range"} ELSE {})
ResponseBody(kind, r) == IF kind = "range" THEN Drop(content, r) ELSE content

NameFrozen == UNCHANGED nameVars
BkFrozen   == UNCHANGED bkVars
UtilFrozen == UNCHANGED utilVars
SupFrozen  == UNCHANGED supVars /\ BkFrozen

\* A caller invokes download_with_resume(url, dest).
Call ==
    /\ pc = "idle"
    /\ calls < MaxCalls
    /\ calls' = calls + 1
    /\ pc' = "entry"
    /\ result' = "none"
    /\ restarts' = 0
    /\ range' = NoRange
    /\ body' = <<>>
    /\ hist' = [part |-> part, resp |-> "none", stream |-> "none"]
    /\ UNCHANGED <<content, dest, part, requests, init0>>
    /\ NameFrozen /\ SupFrozen /\ UtilFrozen

\* Lines 185-195, run by the caller's invocation and by every recursive one:
\* the short-circuit on an existing destination, else the request headers.
Enter ==
    /\ pc = "entry"
    /\ IF AlreadyThere(dest)
         THEN /\ result' = "true"
              /\ pc' = "idle"
              /\ UNCHANGED range
         ELSE /\ range' = RangeHeader(part)
              /\ pc' = "open"
              /\ UNCHANGED result
    /\ UNCHANGED <<content, dest, part, body, restarts, requests, calls, hist, init0>>
    /\ NameFrozen /\ SupFrozen /\ UtilFrozen

\* Line 197: urlopen succeeds and the partial file is opened for appending.
OpenOK ==
    /\ pc = "open"
    /\ \E kind \in ResponseKinds(range) :
          /\ body' = ResponseBody(kind, range)
          /\ hist' = [hist EXCEPT !.resp = kind]
    /\ requests' = requests + 1
    /\ part' = OpenAppend(part)
    /\ pc' = "read"
    /\ UNCHANGED <<content, dest, range, result, restarts, calls, init0>>
    /\ NameFrozen /\ SupFrozen /\ UtilFrozen

\* Lines 218-222: HTTPError 416: drop the partial file and call again.
Open416 ==
    /\ pc = "open"
    /\ restarts < MaxRestarts
    /\ requests' = requests + 1
    /\ part' = Unlink(part)
    /\ restarts' = restarts + 1
    /\ pc' = "entry"
    /\ hist' = [hist EXCEPT !.resp = "416"]
    /\ UNCHANGED <<content, dest, range, body, result, calls, init0>>
    /\ NameFrozen /\ SupFrozen /\ UtilFrozen

\* Line 223: any other HTTPError.  Line 225: URLError (no connection).
OpenError ==
    /\ pc = "open"
    /\ \E kind \in {"http", "url"} : hist' = [hist EXCEPT !.resp = kind]
    /\ requests' = requests + 1
    /\ result' = "false"
    /\ pc' = "idle"
    /\ UNCHANGED <<content, dest, part, range, body, restarts, calls, init0>>
    /\ NameFrozen /\ SupFrozen /\ UtilFrozen

\* Lines 208-211: one block is read and appended to the partial file.
ReadChunk ==
    /\ pc = "read"
    /\ body # <<>>
    /\ LET chunk == Take(body, Block)
       IN  /\ part' = WriteChunk(part, chunk)
           /\ body' = Drop(body, Len(chunk))
    /\ UNCHANGED <<content, dest, pc, range, result, restarts, requests, calls, hist, init0>>
    /\ NameFrozen /\ SupFrozen /\ UtilFrozen

\* Lines 210, 226-228: resp.read returns b"", the loop ends and the partial file
\* is renamed.  read(amt) returns b"" at the end of the body and also when the
\* connection closes before the announced length arrived (http.client clips the
\* read and raises nothing); the code does not compare done with total.
Publish(how) ==
    /\ dest' = Replace(part, dest)[1]
    /\ part' = Replace(part, dest)[2]
    /\ result' = "true"
    /\ pc' = "idle"
    /\ hist' = [hist EXCEPT !.stream = how]
    /\ UNCHANGED <<content, range, body, restarts, requests, calls, init0>>
    /\ NameFrozen /\ SupFrozen /\ UtilFrozen

ReadEnd ==
    /\ pc = "read"
    /\ body = <<>>
    /\ Publish("complete")

ReadCut ==
    /\ pc = "read"
    /\ body # <<>>
    /\ Publish("cut")

\* Line 209 raises (connection reset, timeout): neither except clause matches
\* (they name HTTPError and URLError), the with block closes the partial file
\* and the exception leaves download_with_resume.
ReadError ==
    /\ pc = "read"
    /\ result' = "raised"
    /\ pc' = "idle"
    /\ hist' = [hist EXCEPT !.stream = "error"]
    /\ UNCHANGED <<content, dest, part, range, body, restarts, requests, calls, init0>>
    /\ NameFrozen /\ SupFrozen /\ UtilFrozen

NameIdle ==
    /\ dirA = <<>> /\ dirB = <<>> /\ nameA = <<>> /\ nameB = <<>>

TailIdle ==
    /\ tailText = <<>> /\ tailOut = <<>> /\ tailRes = <<>>

RamIdle ==
    /\ ramIn = <<>> /\ ramFallback = <<>> /\ ramOut = <<>>
    /\ hostTotal = 0 /\ warned = "off"

MetaIdle ==
    /\ metaFile = <<>> /\ startSh = <<>> /\ metaOut = <<>>
    /\ provPc = "off" /\ provArgs = <<>> /\ provRes = "none"
    /\ metaWrites = 0 /\ provCalls = 0 /\ instJars = {}

UpdIdle ==
    /\ updCur = <<>> /\ updGot = <<>> /\ updProg = "off" /\ updRes = "off"

UtilIdle == TailIdle /\ RamIdle /\ MetaIdle /\ UpdIdle

BkIdle ==
    /\ tree = {} /\ archives = <<>> /\ now = 0 /\ autosave = <<>>
    /\ bkDest = "" /\ bkInclude = FALSE /\ bkRunning = FALSE
    /\ bkOut = <<>> /\ bkDone = <<>> /\ bkCalls = 0

SupIdle ==
    /\ sessions = <<>> /\ jar = <<>> /\ logf = <<>>
    /\ screenOk = FALSE /\ supRes = "off" /\ supLast = <<>>
    /\ supPc = "off" /\ supCur = <<>> /\ polls = 0 /\ supLog = <<>>
    /\ BkIdle

\* Before the first invocation: the server holds some object; the destination
\* and the partial file each exist or not, with any bytes (a partial file may be
\* a prefix of the object or stale).
Init ==
    /\ content \in Files
    /\ \E d \in Files \cup {NoFile}, p \in Files \cup {NoFile} :
          /\ dest = d
          /\ part = p
          /\ init0 = [dest |-> d, part |-> p]
    /\ pc = "idle"
    /\ range = NoRange
    /\ body = <<>>
    /\ result = "none"
    /\ restarts = 0
    /\ requests = 0
    /\ calls = 0
    /\ hist = [part |-> NoFile, resp |-> "none", stream |-> "none"]
    /\ NameIdle /\ SupIdle /\ UtilIdle

Next ==
    \/ Call
    \/ Enter
    \/ OpenOK
    \/ Open416
    \/ OpenError
    \/ ReadChunk
    \/ ReadEnd
    \/ ReadCut
    \/ ReadError

Spec == Init /\ [][Next]_vars

\* ------------------------------------------------ properties of the fetcher
\* The invocation has returned (or raised).
Returned == pc = "idle" /\ result # "none"

\* C1: on a destination that did not exist initially, a file at the destination
\* path, whenever it exists, holds the complete server content.  Stated here for
\* the runs that start with no partial file either, where every byte of the
\* destination was written by download_with_resume.
C1_DestinationComplete ==
    (~Exists(init0.dest) /\ ~Exists(init0.part)) =>
        (Exists(dest) => dest = content)

\* C2: when the partial file holds the first k bytes of the content and the server
\* answers the request "Range: bytes=k-" with the whole rest of the object, the
\* offset sent is the partial file's size k, the call succeeds and the destination
\* is the content.
C2_ResumeCorrect ==
    (restarts = 0 /\ Exists(hist.part) /\ IsPrefix(hist.part, content)) =>
        /\ pc \in {"open", "read"} => range = Len(hist.part)
        /\ (Returned /\ hist.resp = "range" /\ hist.stream = "complete") =>
               (result = "true" /\ dest = content /\ range = Len(hist.part))

C2_Witness ==
    /\ Returned /\ restarts = 0
    /\ hist.resp = "range" /\ hist.stream = "complete"
    /\ Exists(hist.part) /\ IsPrefix(hist.part, content)
    /\ 0 < Len(hist.part) /\ Len(hist.part) < Len(content)
    /\ dest = content

\* C3: when the destination exists, download_with_resume returns success at once,
\* issues no request and leaves the destination and the partial file unchanged.
C3_IdempotentCompletion ==
    [][(pc = "entry" /\ Exists(dest)) =>
          /\ result' = "true" /\ pc' = "idle"
          /\ requests' = requests
          /\ dest' = dest /\ part' = part]_vars

\* A second fetch after a successful first one, which made the only request.
C3_Witness ==
    /\ Returned /\ calls = 2 /\ result = "true"
    /\ ~Exists(init0.dest) /\ Exists(dest)
    /\ hist.resp = "none" /\ requests = 1

\* C4: after a 416 answer to a resume attempt, a successful call leaves the
\* server's current content at the destination.
C4_Recovery416 ==
    (Returned /\ result = "true" /\ restarts >= 1 /\ Exists(hist.part)) =>
        dest = content

\* C5: one invocation restarts after 416 at most once.
C5_RestartOnce == restarts <= 1

\* C6: an error while reading the response body makes the call return a failure
\* value, with the destination absent and the partial file kept.
C6_FailureReturned ==
    (Returned /\ hist.stream = "error") =>
        (result = "false" /\ ~Exists(dest) /\ Exists(part))

\* C7: starting with at most one of the destination and the partial file, at
\* most one of them exists in every state, and an existing destination is never
\* fetched again (no request, no change).
C7_AtMostOneFile ==
    /\ [](~(Exists(init0.dest) /\ Exists(init0.part)) =>
            ~(Exists(dest) /\ Exists(part)))
    /\ [][Exists(dest) => (requests' = requests /\ dest' = dest)]_vars

\* The destination published by a call that was restarted after 416 and had
\* found a partial file.
C7_Witness ==
    /\ Returned /\ restarts >= 1 /\ Exists(init0.part)
    /\ Exists(dest) /\ ~Exists(part)

\* ====================================================== session names
\* Characters of directory names: letters, the underscore and the space (a
\* character outside [A-Za-z0-9._-]).
Chars == {"a", "b", "_", " "}
\* The characters the pattern [^A-Za-z0-9._-] of safe_name leaves alone.
SafeChars == {"a", "b", "_"}

\* Base names of directories (Path.name of a directory picked from the servers
\* base is not empty).
DirNames == SeqsUpTo(Chars, MaxName) \ {<<>>}
Parents == {"srv", "old"}
\* An instance directory: a parent directory and a base name (Path.name).
Dirs == [parent : Parents, name : DirNames]

\* re.sub(r"[^A-Za-z0-9._-]", "_", s)
Sanitize(s) == [i \in 1..Len(s) |-> IF s[i] \in SafeChars THEN s[i] ELSE "_"]

RECURSIVE LStrip(_)
LStrip(s) == IF s # <<>> /\ Head(s) = "_" THEN LStrip(Tail(s)) ELSE s
RECURSIVE RStrip(_)
RStrip(s) ==
    IF s # <<>> /\ s[Len(s)] = "_" THEN RStrip(SubSeq(s, 1, Len(s) - 1)) ELSE s
\* str.strip("_")
Strip(s) == RStrip(LStrip(s))

ServerWord == <<"s", "e", "r", "v", "e", "r">>

\* safe_name(s): sanitize, strip the underscores at both ends, "server" if empty.
safe_name(s) ==
    LET t == Strip(Sanitize(s)) IN IF t = <<>> THEN ServerWord ELSE t

\* _session_name(folder) = "mc_" + safe_name(folder.name)
_session_name(d) == <<"m", "c", "_">> \o safe_name(d.name)

FetchFrozen == UNCHANGED fetchVars

FetchIdle ==
    /\ content = <<>> /\ dest = NoFile /\ part = NoFile /\ pc = "off"
    /\ range = NoRange /\ body = <<>> /\ result = "none"
    /\ restarts = 0 /\ requests = 0 /\ calls = 0
    /\ hist = <<>> /\ init0 = <<>>

\* Two managed instances; no session name has been asked for yet.
InitName ==
    /\ dirA \in Dirs
    /\ dirB \in Dirs
    /\ nameA = <<>>
    /\ nameB = <<>>
    /\ FetchIdle /\ SupIdle /\ UtilIdle

\* _session_name(dirA) is called (again).
NameOfA ==
    /\ nameA' = _session_name(dirA)
    /\ UNCHANGED <<dirA, dirB, nameB>>
    /\ FetchFrozen /\ SupFrozen /\ UtilFrozen

\* _session_name(dirB) is called (again).
NameOfB ==
    /\ nameB' = _session_name(dirB)
    /\ UNCHANGED <<dirA, dirB, nameA>>
    /\ FetchFrozen /\ SupFrozen /\ UtilFrozen

NextName ==
    \/ NameOfA
    \/ NameOfB

SpecName == InitName /\ [][NextName]_vars

\* C8: two instances with different directories have different session names.
C8_NamesDistinct ==
    (nameA # <<>> /\ nameB # <<>> /\ dirA # dirB) => nameA # nameB

\* ================================================== session supervisor
\* The managed instances: one servers base holding three directories, "a", "ab"
\* and "a " (whose session name is that of "a").
Insts ==
    { [parent |-> "srv", name |-> <<"a">>],
      [parent |-> "srv", name |-> <<"a", "b">>],
      [parent |-> "srv", name |-> <<"a", " ">>] }

\* n occurs in s as a contiguous run (Python's "n in s" on strings).
IsSubstring(n, s) ==
    \E k \in 0..(Len(s) - Len(n)) : SubSeq(s, k + 1, k + Len(n)) = n

\* _screen_ls(): the session names "screen -ls" prints, one line per session.
_screen_ls == {_session_name(j) : j \in {k \in Insts : sessions[k] > 0}}

\* Mutant: the status query always answers "not running".
is_running_Never(i) == FALSE
\* is_running(folder): the session name occurs in the output of "screen -ls".
is_running(i) == \E line \in _screen_ls : IsSubstring(_session_name(i), line)

\* Mutant: the artifact is taken to be present.
JarExists_Always(i) == TRUE
\* (folder / jar_name).exists()
JarExists(i) == jar[i]

\* The outcome of one supervisor call: what it returned (or that it raised) and
\* the message it printed.
Outcome(op, i, ret, msg) == [op |-> op, inst |-> i, ret |-> ret, msg |-> msg]

\* Wait loop of stop_server_screen: range(20).
PollLimit == 20

\* No instance (no call has been made yet).
NoInst == [parent |-> "", name |-> <<>>]

\* Texts an operator sends to a console.
Texts == {"say hi", "list"}

\* The sessions "screen -S <name> -X ..." acts on: GNU screen takes the session
\* whose name is <name> when there is exactly one, else the single session whose
\* name starts with <name>; otherwise it reports an error and does nothing.
Resolve(n) ==
    LET exact  == {j \in Insts : sessions[j] = 1 /\ _session_name(j) = n}
        prefix == {j \in Insts : sessions[j] = 1 /\ IsPrefix(n, _session_name(j))}
        many   == \E j \in Insts : sessions[j] > 1 /\ IsPrefix(n, _session_name(j))
    IN  IF many THEN {}
        ELSE IF Cardinality(exact) = 1 THEN exact
        ELSE IF Cardinality(prefix) = 1 THEN prefix
        ELSE {}

\* One request to the multiplexer (or a refusal to make one), as logged.
Event(ev, text, to) == [ev |-> ev, text |-> text, to |-> to]

\* Mutant: the line terminator is left out.
Stuffed_NoTerminator(command) == <<command>>
\* command + "\r", the text handed to "screen -X stuff".
Stuffed(command) == <<command, "\r">>

\* send_command(folder, command) after _ensure_screen, lines 646-651: the log
\* with what the call did appended.
send_command(i, command, log) ==
    IF ~is_running(i)
      THEN Append(log, Event("refused", <<command>>, {}))
      ELSE Append(log, Event("stuff", Stuffed(command), Resolve(_session_name(i))))

\* Mutant: the session is not registered with the multiplexer.
Spawn_Nothing(s, i) == s
\* screen -dmS <name>: one more session runs in the instance directory.
Spawn(s, i) == [s EXCEPT ![i] = @ + 1]

\* screen -S <name> -X quit: the session it resolves to ends.
Quit(s, n) == [j \in Insts |-> IF j \in Resolve(n) THEN s[j] - 1 ELSE s[j]]

\* Mutant: stop goes on although the instance is not running.
StopNothingToDo_Never(i) == FALSE
\* Line 629: "if not is_running(folder)" of stop_server_screen.
StopNothingToDo(i) == ~is_running(i)

\* Mutant: the forced termination follows the first sleep.
QuitDue_Early(n) == TRUE
\* Mutant: the loop runs once more.
QuitDue_Late(n) == n = PollLimit + 1
\* The for loop of lines 633-637 is exhausted after n sleeps.
QuitDue(n) == n = PollLimit

\* start_server_screen(folder, java_path, jar_name, memory), lines 599-624.
start_server_screen(i) ==
    /\ supPc = "idle"
    /\ sessions[i] < MaxSessions
    /\ supCur' = i
    /\ supLog' = <<>>
    /\ IF ~screenOk
         THEN \* _ensure_screen raises RuntimeError
              /\ supRes' = "raised"
              /\ supLast' = Outcome("start", i, "raised", "screen not installed")
              /\ UNCHANGED <<sessions, logf>>
         ELSE IF is_running(i)
         THEN /\ supRes' = "false"
              /\ supLast' = Outcome("start", i, "false", "already running")
              /\ UNCHANGED <<sessions, logf>>
         ELSE IF ~JarExists(i)
         THEN /\ supRes' = "false"
              /\ supLast' = Outcome("start", i, "false", "jar not found")
              /\ UNCHANGED <<sessions, logf>>
         ELSE \* screen -L -Logfile <log> -dmS <name> bash -lc <cmd>
              \/ /\ sessions' = Spawn(sessions, i)
                 /\ logf' = [logf EXCEPT ![i] = TRUE]
                 /\ supRes' = "true"
                 /\ supLast' = Outcome("start", i, "true", "started")
              \/ \* check_call raises: the session was not created
                 /\ supRes' = "false"
                 /\ supLast' = Outcome("start", i, "false", "failed to start")
                 /\ UNCHANGED <<sessions, logf>>
    /\ UNCHANGED <<jar, screenOk, supPc, polls>>
    /\ FetchFrozen /\ NameFrozen /\ BkFrozen /\ UtilFrozen

\* The operator's send_command(folder, command), lines 644-651.
SendInput(i, command) ==
    /\ supPc = "idle"
    /\ supCur' = i
    /\ IF ~screenOk
         THEN /\ supLog' = <<>>
              /\ supRes' = "raised"
              /\ supLast' = Outcome("send", i, "raised", "screen not installed")
         ELSE /\ supLog' = send_command(i, command, <<>>)
              /\ supRes' = "none"
              /\ supLast' = Outcome("send", i, "none",
                                    IF is_running(i) THEN "sent" ELSE "not running")
    /\ UNCHANGED <<sessions, jar, logf, screenOk, supPc, polls>>
    /\ FetchFrozen /\ NameFrozen /\ BkFrozen /\ UtilFrozen

\* attach_console(folder), lines 665-671: the operator's terminal is handed
\* to "screen -r <name>" until the operator detaches.
attach_console(i) ==
    /\ supPc = "idle"
    /\ supCur' = i
    /\ IF ~screenOk
         THEN /\ supLog' = <<>>
              /\ supRes' = "raised"
              /\ supLast' = Outcome("attach", i, "raised", "screen not installed")
         ELSE IF ~is_running(i)
         THEN /\ supLog' = <<>>
              /\ supRes' = "none"
              /\ supLast' = Outcome("attach", i, "none", "not running")
         ELSE /\ supLog' = <<Event("attach", <<>>, Resolve(_session_name(i)))>>
              /\ supRes' = "none"
              /\ supLast' = Outcome("attach", i, "none", "attached")
    /\ UNCHANGED <<sessions, jar, logf, screenOk, supPc, polls>>
    /\ FetchFrozen /\ NameFrozen /\ BkFrozen /\ UtilFrozen

\* stop_server_screen(folder), lines 627-631: nothing to do when not running.
StopBegin(i) ==
    /\ supPc = "idle"
    /\ supCur' = i
    /\ supLog' = <<>>
    /\ polls' = 0
    /\ IF ~screenOk
         THEN /\ supRes' = "raised"
              /\ supLast' = Outcome("stop", i, "raised", "screen not installed")
              /\ UNCHANGED supPc
         ELSE IF StopNothingToDo(i)
         THEN /\ supRes' = "none"
              /\ supLast' = Outcome("stop", i, "none", "not running")
              /\ UNCHANGED supPc
         ELSE /\ supPc' = "stop_send"
              /\ supRes' = "pending"
              /\ supLast' = Outcome("stop", i, "pending", "")
    /\ UNCHANGED <<sessions, jar, logf, screenOk>>
    /\ FetchFrozen /\ NameFrozen /\ BkFrozen /\ UtilFrozen

\* Line 632: send_command(folder, "stop").
StopSend ==
    /\ supPc = "stop_send"
    /\ supLog' = send_command(supCur, "stop", supLog)
    /\ supPc' = "stop_poll"
    /\ UNCHANGED <<sessions, jar, logf, screenOk, supRes, supLast, supCur, polls>>
    /\ FetchFrozen /\ NameFrozen /\ BkFrozen /\ UtilFrozen

\* Lines 633-637: one round of the wait loop: a status query, then either the
\* return or one second of sleep.
StopPoll ==
    /\ supPc = "stop_poll"
    /\ IF ~is_running(supCur)
         THEN /\ supPc' = "idle"
              /\ supRes' = "none"
              /\ supLast' = Outcome("stop", supCur, "none", "stopped")
              /\ UNCHANGED polls
         ELSE /\ polls' = polls + 1
              /\ supPc' = IF QuitDue(polls + 1) THEN "stop_quit" ELSE "stop_poll"
              /\ UNCHANGED <<supRes, supLast>>
    /\ UNCHANGED <<sessions, jar, logf, screenOk, supCur, supLog>>
    /\ FetchFrozen /\ NameFrozen /\ BkFrozen /\ UtilFrozen

\* Lines 638-642: screen -S <name> -X quit, then the last status query.
StopQuit ==
    /\ supPc = "stop_quit"
    /\ supLog' = Append(supLog, Event("quit", <<>>, Resolve(_session_name(supCur))))
    /\ sessions' = Quit(sessions, _session_name(supCur))
    /\ UNCHANGED <<jar, logf, screenOk, supCur, polls>>
    /\ supPc' = "idle"
    /\ supRes' = "none"
    /\ supLast' = Outcome("stop", supCur, "none",
                          IF ~is_running(supCur)' THEN "forced quit"
                          ELSE "could not close")
    /\ FetchFrozen /\ NameFrozen /\ BkFrozen /\ UtilFrozen

\* The steps of a stop in progress.
StopStep == StopSend \/ StopPoll \/ StopQuit

\* The supervised process ends (it was told to, or it crashed): its session
\* leaves the multiplexer's listing.
SessionExit(i) ==
    /\ sessions[i] > 0
    /\ sessions' = [sessions EXCEPT ![i] = @ - 1]
    /\ UNCHANGED <<jar, logf, screenOk, supRes, supLast, supPc, supCur, polls, supLog>>
    /\ FetchFrozen /\ NameFrozen /\ BkFrozen /\ UtilFrozen

\* No session runs; each instance directory may hold its artifact and a log
\* file of an earlier run; screen may be installed or not.
InitSup ==
    /\ sessions = [i \in Insts |-> 0]
    /\ jar \in [Insts -> BOOLEAN]
    /\ logf \in [Insts -> BOOLEAN]
    /\ screenOk \in BOOLEAN
    /\ supRes = "none"
    /\ supLast = Outcome("none", NoInst, "none", "")
    /\ supPc = "idle"
    /\ supCur = NoInst
    /\ polls = 0
    /\ supLog = <<>>
    /\ FetchIdle /\ NameIdle /\ BkIdle /\ UtilIdle

NextSup ==
    \/ \E i \in Insts : start_server_screen(i)
    \/ \E i \in Insts, c \in Texts : SendInput(i, c)
    \/ \E i \in Insts : attach_console(i)
    \/ \E i \in Insts : StopBegin(i)
    \/ StopSend
    \/ StopPoll
    \/ StopQuit
    \/ \E i \in Insts : SessionExit(i)

SpecSup == InitSup /\ [][NextSup]_vars

\* The operator's call in progress keeps running: a stop takes its next step.
SpecSupFair == SpecSup /\ WF_vars(StopStep)

\* Sessions the multiplexer holds under the session name of instance i.
SessionsNamed(i) ==
    LET same == {j \in Insts : _session_name(j) = _session_name(i)}
        RECURSIVE Sum(_)
        Sum(S) == IF S = {} THEN 0
                  ELSE LET j == CHOOSE x \in S : TRUE
                       IN  sessions[j] + Sum(S \ {j})
    IN  Sum(same)

\* C9: start on an instance whose status is Running fails (already running) and
\* spawns nothing; the multiplexer holds at most one session for an instance.
C9_StartOnRunning ==
    /\ [][\A i \in Insts :
            (start_server_screen(i) /\ screenOk /\ is_running(i)) =>
                /\ supRes' = "false"
                /\ supLast'.msg = "already running"
                /\ sessions' = sessions
                /\ logf' = logf]_vars
    /\ [](\A i \in Insts : SessionsNamed(i) <= 1)

\* A start was refused while a session of that instance was running.
C9_Witness ==
    /\ supLast.op = "start" /\ supLast.msg = "already running"
    /\ supRes = "false"
    /\ sessions[supLast.inst] = 1

\* C10: start on a Stopped instance whose artifact is absent fails (jar not
\* found), spawns no session, creates no log file; the instance stays Stopped.
C10_ArtifactMissing ==
    [][\A i \in Insts :
          (start_server_screen(i) /\ screenOk /\ ~is_running(i) /\ ~jar[i]) =>
              /\ supRes' = "false"
              /\ supLast'.msg = "jar not found"
              /\ sessions' = sessions
              /\ logf' = logf
              /\ ~is_running(i)']_vars

\* A start was refused for the missing artifact: no session, no log file.
C10_Witness ==
    /\ supLast.op = "start" /\ supLast.msg = "jar not found"
    /\ supRes = "false"
    /\ ~jar[supLast.inst]
    /\ sessions[supLast.inst] = 0
    /\ ~logf[supLast.inst]

\* ------------------------------------------- properties of stop and send
\* The requests of kind ev in a log.
EventsOf(log, ev) == {k \in 1..Len(log) : log[k].ev = ev}

\* The log starts with the graceful shutdown command handed to the multiplexer.
StopWasSent(log) ==
    /\ Len(log) >= 1
    /\ log[1].ev = "stuff"
    /\ log[1].text = <<"stop", "\r">>

\* C11: stop on an instance whose status is Stopped returns at once, sends no
\* command into any session and does not call the multiplexer's quit.
C11_StopIdempotent ==
    [][\A i \in Insts :
          (StopBegin(i) /\ screenOk /\ ~is_running(i)) =>
              /\ supPc' = "idle"
              /\ supLast'.msg = "not running"
              /\ supLog' = <<>>
              /\ sessions' = sessions]_vars

\* A stop of a stopped instance has returned while another session was running.
C11_Witness ==
    /\ supPc = "idle" /\ supLast.op = "stop" /\ supLast.msg = "not running"
    /\ supLog = <<>>
    /\ sessions[supLast.inst] = 0
    /\ \E j \in Insts : sessions[j] = 1

\* C12: stop sends the graceful command before it polls; the forced termination
\* comes only after that command and PollLimit polls that all reported Running,
\* and a poll that reports Stopped ends stop without a forced termination.
C12_EscalationOrder ==
    /\ [](supLast.op = "stop" =>
            /\ polls > 0 => StopWasSent(supLog)
            /\ (supPc = "stop_quit" \/ EventsOf(supLog, "quit") # {}) =>
                   (polls = PollLimit /\ StopWasSent(supLog))
            /\ \A k \in EventsOf(supLog, "quit") : k = Len(supLog) /\ k = 2)
    /\ [][(StopPoll /\ ~is_running(supCur)) =>
            /\ supPc' = "idle"
            /\ supLast'.msg = "stopped"
            /\ EventsOf(supLog', "quit") = {}]_vars

\* A stop that ended with the forced termination after the whole window.
C12_Witness ==
    /\ supPc = "idle" /\ supLast.op = "stop" /\ supLast.msg = "forced quit"
    /\ polls = PollLimit
    /\ supLog[1].ev = "stuff" /\ supLog[2].ev = "quit"

\* C13: stop returns, after at most one graceful command, at most PollLimit polls
\* of the wait loop and at most one forced termination.
C13_StopTerminates ==
    /\ [](/\ polls <= PollLimit
          /\ supLast.op = "stop" =>
                /\ Cardinality(EventsOf(supLog, "stuff")) <= 1
                /\ Cardinality(EventsOf(supLog, "quit")) <= 1)
    /\ (supPc # "idle") ~> (supPc = "idle")

\* A stop has returned after the process exited late in the window.
C13_Witness ==
    /\ supPc = "idle" /\ supLast.op = "stop" /\ supLast.msg = "stopped"
    /\ polls = PollLimit - 1
    /\ Cardinality(EventsOf(supLog, "stuff")) = 1

\* C14: a successful start makes the status Running; a send to a Running
\* instance succeeds; and once the process of the instance has exited after the
\* shutdown command reached it, the next poll ends stop with status Stopped and
\* without a forced termination.
C14_Lifecycle ==
    [][/\ \A i \in Insts :
            (start_server_screen(i) /\ supRes' = "true") => is_running(i)'
       /\ \A i \in Insts, c \in Texts :
            (SendInput(i, c) /\ screenOk /\ is_running(i)) => supLast'.msg = "sent"
       /\ (StopPoll /\ StopWasSent(supLog) /\ supLog[1].to = {supCur}
             /\ sessions[supCur] = 0) =>
               /\ supPc' = "idle"
               /\ supLast'.msg = "stopped"
               /\ ~is_running(supCur)']_vars

\* C15: a send to an instance whose status is Stopped is refused and injects
\* nothing; a send to a Running instance injects the text and one line
\* terminator into the session of that instance, once.
C15_SendInput ==
    [][\A i \in Insts, c \in Texts :
          (SendInput(i, c) /\ screenOk) =>
              IF ~is_running(i)
                THEN /\ supLast'.msg = "not running"
                     /\ EventsOf(supLog', "stuff") = {}
                ELSE /\ supLast'.msg = "sent"
                     /\ supLog' = <<Event("stuff", <<c, "\r">>, {i})>>]_vars


\* ==================================================== backup coordinator
\* The name of the per-instance log file.
_DEF_LOG == "screen.log"

\* The files an instance directory may hold, as paths relative to it.
Paths == { <<"a.txt">>, <<"screen.log">>, <<"world", "screen.log">> }

\* dest_dir: the default folder.parent / "backups", or a directory "backups"
\* inside the instance directory.
DestDirs == {"sibling", "inside"}

\* Clock ticks per second of the wall clock.
TicksPerSec == 2
\* time.sleep(3) after the flush command.
SettleSecs == 3
SettleTicks == SettleSecs * TicksPerSec

\* time.strftime("%Y%m%d-%H%M%S"): the clock cut to whole seconds.
Timestamp(t) == t \div TicksPerSec
Stamps == 0..Timestamp(MaxTicks)

\* An archive path: dest_dir / f"{folder.name}_{ts}.zip".
ArchPaths == DestDirs \X Stamps
NoArchive == [exists |-> FALSE, whole |-> FALSE, entries |-> {}]
Archive(whole, entries) == [exists |-> TRUE, whole |-> whole, entries |-> entries]

\* The path, relative to the instance directory, of an archive that lies in
\* the inside destination.
InTree(ts) == <<"backups", ToString(ts)>>

\* os.walk(folder): every file below the instance directory, the archives of
\* the inside destination among them.
Walk(t, arch) ==
    t \cup {InTree(ts) : ts \in {u \in Stamps : arch[<<"inside", u>>].exists}}

\* The file name of a path (fname of os.walk).
FileName(p) == p[Len(p)]

\* The walk's filter: "if not include_logs and fname == _DEF_LOG: continue".
Skipped(p, include_logs) == ~include_logs /\ FileName(p) = _DEF_LOG

\* The entries zf.write puts into the archive.
Entries(t, arch, include_logs) ==
    {p \in Walk(t, arch) : ~Skipped(p, include_logs)}

\* What the servers do with a console line: save-off disables, save-on
\* enables the periodic autosave of the servers the line is delivered to.
Deliver(auto, command, to) ==
    [j \in Insts |->
        IF j \notin to THEN auto[j]
        ELSE IF command = "save-off" THEN FALSE
        ELSE IF command = "save-on" THEN TRUE
        ELSE auto[j]]

\* The servers a send_command(i, command) reaches.
Reached(i) == IF is_running(i) THEN Resolve(_session_name(i)) ELSE {}

\* Mutant: autosave is never re-enabled.
SaveOnDue_Never(running) == FALSE
\* "if running: send_command(folder, 'save-on')"
SaveOnDue(running) == running

\* The locals of backup_server end with the call.
BackupLeaves ==
    /\ bkDest' = "sibling"
    /\ bkInclude' = FALSE
    /\ bkRunning' = FALSE
    /\ bkOut' = <<"sibling", 0>>

\* backup_server returns None after printing msg.
BackupFails(msg) ==
    /\ supRes' = "none"
    /\ supLast' = Outcome("backup", supCur, "none", msg)
    /\ supPc' = "idle"
    /\ BackupLeaves

\* backup_server returns out_zip.
BackupReturns(out) ==
    /\ supRes' = "path"
    /\ supLast' = Outcome("backup", supCur, "path", "backup done")
    /\ supPc' = "idle"
    /\ bkDone' = Append(bkDone, out)
    /\ BackupLeaves

\* The operator calls backup_server(folder, dest_dir, include_logs) on the
\* instance; lines 675-682.
BackupBegin(d, inc, isdir) ==
    /\ supPc = "idle"
    /\ bkCalls < MaxBackups
    /\ bkCalls' = bkCalls + 1
    /\ supLog' = <<>>
    /\ IF ~isdir
         THEN BackupFails("folder not found")
         ELSE IF ~screenOk
         THEN \* is_running raises FileNotFoundError, caught at line 708
              BackupFails("backup failed")
         ELSE /\ bkDest' = d
              /\ bkInclude' = inc
              /\ bkOut' = bkOut
              /\ bkRunning' = is_running(supCur)
              /\ supPc' = IF is_running(supCur) THEN "bk_off" ELSE "bk_zip"
              /\ supRes' = "pending"
              /\ supLast' = Outcome("backup", supCur, "pending", "")
    /\ UNCHANGED <<sessions, jar, logf, screenOk, supCur, polls>>
    /\ UNCHANGED <<tree, archives, now, autosave, bkDone>>
    /\ FetchFrozen /\ NameFrozen /\ UtilFrozen

\* One send_command of backup_server: the command is sent (or refused) and
\* the call moves on to the position next.
BackupSend(at, command, next) ==
    /\ supPc = at
    /\ supLog' = send_command(supCur, command, supLog)
    /\ autosave' = Deliver(autosave, command, Reached(supCur))
    /\ supPc' = next
    /\ UNCHANGED <<sessions, jar, logf, screenOk, supRes, supLast, supCur, polls>>
    /\ UNCHANGED <<tree, archives, now, bkDest, bkInclude, bkRunning, bkOut, bkDone, bkCalls>>
    /\ FetchFrozen /\ NameFrozen /\ UtilFrozen

\* send_command(folder, "save-off"), line 684.
BackupSaveOff == BackupSend("bk_off", "save-off", "bk_flush")

\* send_command(folder, "save-all flush"), line 685.
BackupFlush == BackupSend("bk_flush", "save-all flush", "bk_sleep")

\* time.sleep(3), line 686.
BackupSettle ==
    /\ supPc = "bk_sleep"
    /\ now + SettleTicks <= MaxTicks
    /\ now' = now + SettleTicks
    /\ supLog' = Append(supLog, Event("sleep", <<>>, {}))
    /\ supPc' = "bk_zip"
    /\ UNCHANGED <<sessions, jar, logf, screenOk, supRes, supLast, supCur, polls>>
    /\ UNCHANGED <<tree, archives, autosave, bkDest, bkInclude, bkRunning, bkOut, bkDone, bkCalls>>
    /\ FetchFrozen /\ NameFrozen /\ UtilFrozen

\* Lines 688-702: the archive path is computed from the clock, the
\* destination directory is made, the archive is opened for writing (an
\* existing file at its path is truncated) and the walk fills it.
BackupArchive ==
    /\ supPc = "bk_zip"
    /\ LET out == <<bkDest, Timestamp(now)>>
           opened == [archives EXCEPT ![out] = Archive(FALSE, {})]
       IN  \/ \* mkdir or the opening of the archive raises
              /\ UNCHANGED <<archives, supLog, bkDone>>
              /\ BackupFails("backup failed")
           \/ \* the walk or a write raises: the partial archive stays
              /\ archives' = opened
              /\ UNCHANGED <<supLog, bkDone>>
              /\ BackupFails("backup failed")
           \/ \* the archive is written and closed
              /\ archives' = [archives EXCEPT ![out] =
                                 Archive(TRUE, Entries(tree, opened, bkInclude))]
              /\ supLog' = Append(supLog, Event("archive", <<>>, {}))
              /\ IF SaveOnDue(bkRunning)
                   THEN /\ supPc' = "bk_on"
                        /\ bkOut' = out
                        /\ UNCHANGED <<supRes, supLast, bkDone, bkDest, bkInclude, bkRunning>>
                   ELSE BackupReturns(out)
    /\ UNCHANGED <<sessions, jar, logf, screenOk, supCur, polls>>
    /\ UNCHANGED <<tree, now, autosave, bkCalls>>
    /\ FetchFrozen /\ NameFrozen /\ UtilFrozen

\* send_command(folder, "save-on") and the return of out_zip, lines 703-707.
BackupSaveOn ==
    /\ supPc = "bk_on"
    /\ supLog' = send_command(supCur, "save-on", supLog)
    /\ autosave' = Deliver(autosave, "save-on", Reached(supCur))
    /\ BackupReturns(bkOut)
    /\ UNCHANGED <<sessions, jar, logf, screenOk, supCur, polls>>
    /\ UNCHANGED <<tree, archives, now, bkCalls>>
    /\ FetchFrozen /\ NameFrozen /\ UtilFrozen

\* The wall clock advances.
Tick ==
    /\ now < MaxTicks
    /\ now' = now + 1
    /\ UNCHANGED supVars
    /\ UNCHANGED <<tree, archives, autosave, bkDest, bkInclude, bkRunning, bkOut, bkDone, bkCalls>>
    /\ FetchFrozen /\ NameFrozen /\ UtilFrozen

\* The sessions the supervisor can have brought about: no two live sessions
\* carry the same session name.
ReachableSessions ==
    {s \in [Insts -> {0, 1}] :
        \A i, j \in Insts :
            (i # j /\ s[i] > 0 /\ s[j] > 0) => _session_name(i) # _session_name(j)}

\* The instance the operator backs up: its session name is also that of "a "
\* and is contained in that of "ab".
BackedUp == [parent |-> "srv", name |-> <<"a">>]

\* The operator works on one instance; some servers run (with autosave on, as
\* a server starts), the instance directory holds some files and no archive
\* has been written yet.
InitBackup ==
    /\ supCur = BackedUp
    /\ sessions \in ReachableSessions
    /\ tree \in SUBSET Paths
    /\ sessions[supCur] > 0 => <<_DEF_LOG>> \in tree
    /\ jar = [i \in Insts |-> TRUE]
    /\ logf = [i \in Insts |-> IF i = supCur THEN <<_DEF_LOG>> \in tree ELSE sessions[i] > 0]
    /\ screenOk \in BOOLEAN
    /\ supRes = "none"
    /\ supLast = Outcome("none", NoInst, "none", "")
    /\ supPc = "idle"
    /\ polls = 0
    /\ supLog = <<>>
    /\ archives = [p \in ArchPaths |-> NoArchive]
    /\ now = 0
    /\ autosave = [i \in Insts |-> TRUE]
    /\ bkDest = "sibling"
    /\ bkInclude = FALSE
    /\ bkRunning = FALSE
    /\ bkOut = <<"sibling", 0>>
    /\ bkDone = <<>>
    /\ bkCalls = 0
    /\ FetchIdle /\ NameIdle /\ UtilIdle

NextBackup ==
    \/ \E d \in DestDirs, inc \in BOOLEAN, isdir \in BOOLEAN : BackupBegin(d, inc, isdir)
    \/ BackupSaveOff
    \/ BackupFlush
    \/ BackupSettle
    \/ BackupArchive
    \/ BackupSaveOn
    \/ Tick
    \/ \E i \in Insts : SessionExit(i)

SpecBackup == InitBackup /\ [][NextBackup]_vars


\* --------------------------------------- properties of the backup coordinator
\* What an entry of the log is about: the command of a send_command (sent or
\* refused), or the step itself.
KindOf(e) == IF e.ev \in {"stuff", "refused"} THEN e.text[1] ELSE e.ev
Kinds(log) == [k \in 1..Len(log) |-> KindOf(log[k])]

\* The steps of a backup that found the instance Running, and of one that
\* found it Stopped.
QuiescedRun == <<"save-off", "save-all flush", "sleep", "archive", "save-on">>
PlainRun == <<"archive">>
RunOf(running) == IF running THEN QuiescedRun ELSE PlainRun

\* A step taken while a backup is in progress.
InBackup == supPc \in {"bk_off", "bk_flush", "bk_sleep", "bk_zip", "bk_on"}

\* C16: a backup that found the instance Running issues save-off, save-all
\* flush, the settling wait, the archive and save-on in this order, so nothing
\* is archived before the flush command and the wait; every command it sends is
\* the text and one line terminator; a backup that found the instance Stopped
\* sends no command; a backup that returns a path has done all of its steps.
C16_QuiesceOrder ==
    [][InBackup =>
        /\ IsPrefix(Kinds(supLog'), RunOf(bkRunning))
        /\ \A k \in 1..Len(supLog') :
              supLog'[k].ev = "stuff" => supLog'[k].text = <<KindOf(supLog'[k]), "\r">>
        /\ ~bkRunning => \A k \in 1..Len(supLog') : supLog'[k].ev \notin {"stuff", "refused"}
        /\ supRes' = "path" => Kinds(supLog') = RunOf(bkRunning)]_vars

\* A backup of a running instance has returned its archive and every one of
\* its commands reached a session.
C16_Witness ==
    /\ supLast.op = "backup"
    /\ supRes = "path"
    /\ Kinds(supLog) = QuiescedRun
    /\ \A k \in 1..Len(supLog) : supLog[k].ev # "refused"
    /\ sessions[supCur] > 0


\* The log holds a send_command of the command that reached a session.
WasSent(log, command) ==
    \E k \in 1..Len(log) : log[k].ev = "stuff" /\ KindOf(log[k]) = command
\* The log holds a send_command of the command, sent or refused.
WasAttempted(log, command) ==
    \E k \in 1..Len(log) : KindOf(log[k]) = command

\* C17: a backup that sent save-off attempts save-on before it returns, also
\* when it returns an error.
C17_AutosaveResumed ==
    [][(InBackup /\ supPc' = "idle" /\ WasSent(supLog', "save-off"))
          => WasAttempted(supLog', "save-on")]_vars


\* The archive path the archive step is about to write.
OutZip == <<bkDest, Timestamp(now)>>
\* The entry the archive at path out would hold for itself.
OwnEntry(out) == IF out[1] = "inside" THEN {InTree(out[2])} ELSE {}

\* The archive step completes an archive.
ArchiveWritten == supPc = "bk_zip" /\ archives'[OutZip].whole

\* C18: the entries of a completed archive are the files of the tree, relative
\* to the instance root, except (without include_logs) the log file
\* screen.log at the instance root; the archive's own path is left aside here.
C18_Exclusion ==
    [][ArchiveWritten =>
          archives'[OutZip].entries \ OwnEntry(OutZip)
             = {f \in Walk(tree, archives) \ OwnEntry(OutZip) :
                   bkInclude \/ f # <<_DEF_LOG>>}]_vars

\* C19: no completed archive holds an entry for its own path.
C19_NotInItself ==
    \A out \in ArchPaths :
        archives[out].whole => OwnEntry(out) \cap archives[out].entries = {}

\* C20: the archive paths returned by the backups of the instance are pairwise
\* distinct.
C20_DistinctPaths ==
    \A j, k \in 1..Len(bkDone) : j # k => bkDone[j] # bkDone[k]


\* ------------------------------------ properties of the supervisor's failures
\* C21: start, stop, sendInput and attach return to their caller and never
\* raise; without the multiplexer, or when the spawn fails, start returns its
\* failure result.
C21_FailuresReturned ==
    /\ supRes # "raised"
    /\ (supLast.op = "start" /\ ~screenOk) => supRes = "false"


\* ================================================================ log tail
\* The characters of a log file: two letters and the line feed.
LogChars == {"x", "y", "\n"}
LogTexts == SeqsUpTo(LogChars, MaxText)
\* No file at folder / "screen.log".
NoText == <<"no file">>

Max(a, b) == IF a >= b THEN a ELSE b

\* The position of the first line feed of t, or 0.
FirstBreak(t) ==
    IF \E k \in 1..Len(t) : t[k] = "\n"
      THEN CHOOSE k \in 1..Len(t) : t[k] = "\n" /\ \A m \in 1..(k - 1) : t[m] # "\n"
      ELSE 0

RECURSIVE splitlines(_)
\* str.splitlines(): the lines of t without their line feeds; a line feed at
\* the end of the text opens no further line.
splitlines(t) ==
    IF t = <<>> THEN <<>>
    ELSE IF FirstBreak(t) = 0 THEN <<t>>
    ELSE <<Take(t, FirstBreak(t) - 1)>> \o splitlines(Drop(t, FirstBreak(t)))

\* Python's data[start:] for a list and an integer start.
SliceFrom(data, start) ==
    LET from == IF start < 0 THEN Max(Len(data) + start, 0) ELSE Min(start, Len(data))
    IN  SubSeq(data, from + 1, Len(data))

\* The lines arguments the operator gives.
TailCounts == (-1)..(MaxText + 1)

TailResult(n, msg) == [lines |-> n, msg |-> msg]

\* tail_console(folder, lines), lines 653-663.
tail_console(n) ==
    /\ IF tailText = NoText
         THEN /\ tailOut' = <<>>
              /\ tailRes' = TailResult(n, "no log")
         ELSE \/ \* for line in data[-lines:]: print(line)
                 /\ tailOut' = SliceFrom(splitlines(tailText), -n)
                 /\ tailRes' = TailResult(n, "printed")
              \/ \* read_text raises: caught at line 662
                 /\ tailOut' = <<>>
                 /\ tailRes' = TailResult(n, "log read failed")
    /\ UNCHANGED tailText
    /\ UNCHANGED <<ramVars, metaVars, updVars>>
    /\ FetchFrozen /\ NameFrozen /\ SupFrozen

\* The instance's log file holds some text, or does not exist.
InitTail ==
    /\ tailText \in LogTexts \cup {NoText}
    /\ tailOut = <<>>
    /\ tailRes = TailResult(0, "none")
    /\ RamIdle /\ MetaIdle /\ UpdIdle
    /\ FetchIdle /\ NameIdle /\ SupIdle

NextTail == \E n \in TailCounts : tail_console(n)

SpecTail == InitTail /\ [][NextTail]_vars

\* The last k elements of d.
LastOf(d, k) == SubSeq(d, Len(d) - k + 1, Len(d))

\* C22: tail_console with lines = N >= 0 prints the last min(N, L) of the L
\* lines of the log, in file order; without a log file it prints no line and
\* reports no error.
C22_TailLines ==
    (tailRes.msg # "none" /\ tailRes.lines >= 0) =>
        IF tailText = NoText
          THEN tailOut = <<>> /\ tailRes.msg = "no log"
          ELSE tailRes.msg = "printed" =>
                  tailOut = LastOf(splitlines(tailText),
                                   Min(tailRes.lines, Len(splitlines(tailText))))


\* ======================================================= memory quantities
\* The characters the operator types beside the literal cases.
RamChars == {"0", "1", "7", "2", "5", "6", "G", "k", "m", "b", " "}

\* The literal cases of the normalization table.
RamTable ==
    { <<"4", "G">>, <<"4", "0", "9", "6">>, <<"2", "0", "0">>,
      <<"2", "0", "4", "8", "m", "b">>, <<>>,
      <<"g", "a", "r", "b", "a", "g", "e">> }

RamInputs == SeqsUpTo(RamChars, MaxRam) \cup RamTable
RamFallbacks == { <<"4", "G">>, <<"2", "G">> }
NoRam == <<"no result">>

DigitChars == <<"0", "1", "2", "3", "4", "5", "6", "7", "8", "9">>
IsDigit(c) == \E d \in 1..10 : DigitChars[d] = c
DigitVal(c) == (CHOOSE d \in 1..10 : DigitChars[d] = c) - 1

RECURSIVE IntOf(_)
\* int(num) for a string of decimal digits.
IntOf(num) ==
    IF num = <<>> THEN 0
    ELSE IntOf(SubSeq(num, 1, Len(num) - 1)) * 10 + DigitVal(num[Len(num)])

RECURSIVE DigitsOf(_)
\* f"{n}" for a natural number.
DigitsOf(n) ==
    IF n < 10 THEN <<DigitChars[n + 1]>>
    ELSE DigitsOf(n \div 10) \o <<DigitChars[(n % 10) + 1]>>

\* str.upper() on one character.
UpperChar(c) ==
    CASE c = "a" -> "A" [] c = "b" -> "B" [] c = "e" -> "E" [] c = "g" -> "G"
      [] c = "k" -> "K" [] c = "m" -> "M" [] c = "r" -> "R" [] OTHER -> c
Upper(s) == [k \in 1..Len(s) |-> UpperChar(s[k])]

\* str.strip(): without the white space at both ends.
StripSpace(s) ==
    LET inked == {k \in 1..Len(s) : s[k] # " "}
    IN  IF inked = {} THEN <<>>
        ELSE SubSeq(s, CHOOSE k \in inked : \A m \in inked : k <= m,
                       CHOOSE k \in inked : \A m \in inked : k >= m)

\* str.replace(" ", "")
RemoveSpaces(s) == SelectSeq(s, LAMBDA c : c # " ")

\* Mutant: a final "B" is kept.
DropFinalB_Keep(v) == v
\* re.sub(r"B$", "", v)
DropFinalB(v) ==
    IF Len(v) > 0 /\ v[Len(v)] = "B" THEN SubSeq(v, 1, Len(v) - 1) ELSE v

\* The groups of re.match(r"^(\d+)([KMG]?)$", v): the unit and the number.
UnitOf(v) == IF Len(v) > 0 /\ v[Len(v)] \in {"K", "M", "G"} THEN <<v[Len(v)]>> ELSE <<>>
NumOf(v) == SubSeq(v, 1, Len(v) - Len(UnitOf(v)))
RamMatches(v) == Len(NumOf(v)) >= 1 /\ \A k \in 1..Len(NumOf(v)) : IsDigit(NumOf(v)[k])

\* Mutant: 256 itself is still taken for gigabytes.
UnitlessUnit_Above(n) == IF n > 256 THEN <<"M">> ELSE <<"G">>
\* Lines 256-258: a number without unit is megabytes from 256 on, else gigabytes.
UnitlessUnit(n) == IF n >= 256 THEN <<"M">> ELSE <<"G">>

\* normalize_ram(value, fallback), lines 247-258.
normalize_ram(value, fallback) ==
    IF value = <<>> THEN fallback
    ELSE LET v == DropFinalB(RemoveSpaces(Upper(StripSpace(value))))
         IN  IF ~RamMatches(v) THEN fallback
             ELSE IF UnitOf(v) # <<>> /\ IntOf(NumOf(v)) > 0
                    THEN NumOf(v) \o UnitOf(v)
             ELSE DigitsOf(IntOf(NumOf(v))) \o UnitlessUnit(IntOf(NumOf(v)))

\* _total_mem_mb_linux(): MemTotal in MB, or None.
NoTotal == -1
HostTotals == {NoTotal, 20, 100, 20480}

\* int(total * 0.85)
Limit85(total) == (total * 85) \div 100

\* Mutant: the warning is given from the limit on.
HeapTooBig_AtLimit(want_mb, total) == total # NoTotal /\ total # 0 /\ want_mb >= Limit85(total)
\* "if total and want_mb > int(total * 0.85)"
HeapTooBig(want_mb, total) == total # NoTotal /\ total # 0 /\ want_mb > Limit85(total)

\* warn_if_heap_too_big(mem_str), lines 270-277: whether the warning is printed.
warn_if_heap_too_big(mem_str, total) ==
    LET v == Upper(mem_str)
        matches == /\ Len(v) >= 2
                   /\ v[Len(v)] \in {"M", "G"}
                   /\ \A k \in 1..(Len(v) - 1) : IsDigit(v[k])
        n == IntOf(SubSeq(v, 1, Len(v) - 1))
        want_mb == n * (IF v[Len(v)] = "G" THEN 1024 ELSE 1)
    IN  IF ~matches THEN FALSE ELSE HeapTooBig(want_mb, total)

\* The caller normalizes a memory quantity.
Normalize ==
    /\ ramOut = NoRam
    /\ ramOut' = normalize_ram(ramIn, ramFallback)
    /\ UNCHANGED <<ramIn, ramFallback, hostTotal, warned>>
    /\ UNCHANGED <<tailVars, metaVars, updVars>>
    /\ FetchFrozen /\ NameFrozen /\ SupFrozen

\* The caller checks the normalized quantity against the host's memory.
WarnCheck ==
    /\ ramOut # NoRam
    /\ warned = "none"
    /\ warned' = IF warn_if_heap_too_big(ramOut, hostTotal) THEN "warned" ELSE "silent"
    /\ UNCHANGED <<ramIn, ramFallback, ramOut, hostTotal>>
    /\ UNCHANGED <<tailVars, metaVars, updVars>>
    /\ FetchFrozen /\ NameFrozen /\ SupFrozen

InitRam ==
    /\ ramIn \in RamInputs
    /\ ramFallback \in RamFallbacks
    /\ ramOut = NoRam
    /\ hostTotal \in HostTotals
    /\ warned = "none"
    /\ TailIdle /\ MetaIdle /\ UpdIdle
    /\ FetchIdle /\ NameIdle /\ SupIdle

NextRam ==
    \/ Normalize
    \/ WarnCheck

SpecRam == InitRam /\ [][NextRam]_vars


\* ------------------------------------------ properties of memory quantities
\* The text, in upper case and without blanks, is a number, an optional unit
\* and an optional "B".
NumericWithUnit(value) ==
    LET c == RemoveSpaces(Upper(value))
    IN  \E d \in 1..Len(c) :
            /\ \A k \in 1..d : IsDigit(c[k])
            /\ SubSeq(c, d + 1, Len(c)) \in
                  { <<>>, <<"B">>, <<"K">>, <<"M">>, <<"G">>,
                    <<"K", "B">>, <<"M", "B">>, <<"G", "B">> }

Unitless(value) == Len(value) >= 1 /\ \A k \in 1..Len(value) : IsDigit(value[k])

\* C27: a number n without unit gives "<n>M" when n >= 256 and "<n>G" when
\* n < 256; 255 gives "255G" and 256 gives "256M".
C27_Unitless ==
    (ramOut # NoRam /\ Unitless(ramIn)) =>
        /\ IntOf(ramIn) >= 256 => ramOut = DigitsOf(IntOf(ramIn)) \o <<"M">>
        /\ IntOf(ramIn) < 256 => ramOut = DigitsOf(IntOf(ramIn)) \o <<"G">>
        /\ ramIn = <<"2", "5", "5">> => ramOut = <<"2", "5", "5", "G">>
        /\ ramIn = <<"2", "5", "6">> => ramOut = <<"2", "5", "6", "M">>

\* "256" was normalized to "256M".
C27_Witness ==
    /\ ramIn = <<"2", "5", "6">>
    /\ ramOut = <<"2", "5", "6", "M">>

\* The heap of a normalized quantity is at least 85% of total MB (the
\* quantity is <number><unit> with the unit K, M or G).
AtLeast85(spec, total) ==
    LET n == IntOf(SubSeq(spec, 1, Len(spec) - 1))
        u == spec[Len(spec)]
    IN  CASE u = "G" -> n * 1024 * 20 >= 17 * total
          [] u = "M" -> n * 20 >= 17 * total
          [] u = "K" -> n * 20 >= 17 * total * 1024

\* C28: the warning is given exactly when the requested heap is at least 85%
\* of the host's memory, for a quantity in any unit; when the host's memory
\* cannot be read there is no warning; the call returns in every case.
C28_WarnExactly ==
    warned # "none" =>
        /\ warned \in {"silent", "warned"}
        /\ hostTotal = NoTotal => warned = "silent"
        /\ hostTotal # NoTotal => (warned = "warned" <=> AtLeast85(ramOut, hostTotal))


\* ---------------------------------------------- properties of the status query
\* C29: is_running(A) holds exactly when the multiplexer lists a session whose
\* name is A's session name; a session of another instance whose name merely
\* contains that name does not make A Running.
C29_StatusExact ==
    \A i \in Insts :
        is_running(i) <=>
            \E j \in Insts : sessions[j] > 0 /\ _session_name(j) = _session_name(i)


\* ------------------------------------- the fetcher and a server without ranges
\* C30: when a partial file holds a prefix of the content and the server
\* ignores the Range header and answers with the whole content, a successful
\* download_with_resume still publishes the content.
C30_RangeIgnored ==
    ( /\ Returned /\ result = "true" /\ restarts = 0
      /\ hist.resp = "full" /\ hist.stream = "complete"
      /\ Exists(hist.part) /\ IsPrefix(hist.part, content) )
        => dest = content


\* ========================================================= descriptor store
\* The keys of meta_data (lines 519-524).
MetaKeys == {"mc_version", "loader", "jar", "memory"}

\* The values the caller provisions with: version ids (one of them with a
\* blank, as "1.14 Pre-Release 1"), loaders and memory quantities as typed.
Versions == { <<"a">>, <<"a", " ", "b">> }
Loaders == { <<"vanilla">>, <<"fabric">> }
Memories == { <<"4", "G">>, <<"2", "0", "4", "8", "m", "b">>, <<"2", "0", "0">> }
ProvArgs == [version : Versions, loader : Loaders, memory : Memories]

\* jar_name: f"server-{safe_name(version_id)}.jar" (line 477) for vanilla,
\* f"fabric-server-{mc_version}.jar" (line 397) for fabric.
JarName(a) ==
    IF a.loader = <<"vanilla">>
      THEN <<"server-">> \o safe_name(a.version) \o <<".jar">>
      ELSE <<"fabric-server-">> \o a.version \o <<".jar">>

\* Mutant: the memory is recorded as it was typed.
MetaData_Raw(a) ==
    [mc_version |-> a.version, loader |-> a.loader, jar |-> JarName(a),
     memory |-> a.memory]
\* meta_data of create_server_folder, lines 519-524.
MetaData(a) ==
    [mc_version |-> a.version, loader |-> a.loader, jar |-> JarName(a),
     memory |-> normalize_ram(a.memory, <<"4", "G">>)]

\* A JSON text as its sequence of tokens: the braces and the members.
Open == <<"{", <<>>>>
Close == <<"}", <<>>>>
Member(k, v) == <<k, v>>

\* json.dumps(meta_data, indent=2)
Dumps(d) ==
    <<Open, Member("mc_version", d.mc_version), Member("loader", d.loader),
      Member("jar", d.jar), Member("memory", d.memory), Close>>

\* json.loads accepts the text.
Parses(t) ==
    /\ Len(t) >= 2
    /\ t[1] = Open
    /\ t[Len(t)] = Close
    /\ \A k \in 2..(Len(t) - 1) : t[k][1] \notin {"{", "}"}

\* json.loads(t) of a text it accepts: the dict of its members, the last
\* member of a key winning.
Loads(t) ==
    LET inner == 2..(Len(t) - 1)
        keys == {t[k][1] : k \in inner}
        last(key) == CHOOSE k \in inner :
                        t[k][1] = key /\ \A m \in inner : t[m][1] = key => m <= k
    IN  [key \in keys |-> t[last(key)][2]]

\* No file at folder / "mcsmeta.json"; no file at folder / "start.sh".
NoMeta == <<<<"no file", <<>>>>>>
NoScript == [xmx |-> <<"no file">>, jar |-> <<>>, quoted |-> FALSE]
\* The dict {} and the caller's state before any read.
EmptyDict == <<>>
NoDict == [none |-> <<>>]
\* The sentinel of the fallback.
Unknown == <<"?">>

\* A start.sh by what the fallback looks at: the argument of -Xmx (or none),
\* the argument of -jar (or none) and whether that one is quoted.
Script(xmx, jarArg, quoted) == [xmx |-> xmx, jar |-> jarArg, quoted |-> quoted]
\* write_start_sh(folder, jar_name, java_path, memory), lines 432-444: the
\* memory is normalized (again) and the jar name is written in quotes.
write_start_sh(jar_name, memory) ==
    Script(normalize_ram(memory, <<"4", "G">>), jar_name, TRUE)
\* start.sh as create_server_folder has it written (lines 513-515).
Generated(a) == write_start_sh(JarName(a), normalize_ram(a.memory, <<"4", "G">>))
\* mem of start_server_screen (line 604): what follows -Xms and -Xmx on the
\* command line of the session.
StartHeap(memory) == normalize_ram(memory, <<"4", "G">>)
\* Scripts written by hand: without -Xmx, without -jar, with an unquoted jar.
OwnScripts ==
    { Script(<<>>, <<>>, FALSE),
      Script(<<"1", "G">>, <<>>, FALSE),
      Script(<<>>, <<"own.jar">>, TRUE),
      Script(<<"1", "G">>, <<"own.jar">>, FALSE) }

\* Mutant: the name is taken up to the end of the line, quoted or not.
JarMatch_Line(sh) == sh.jar \o <<" ", "nogui">>
\* re.search(r'-jar\s+"?([^"\n]+)"?', txt).group(1): up to the closing quote,
\* or up to the end of the line for an unquoted name.
JarMatch(sh) == IF sh.quoted THEN sh.jar ELSE sh.jar \o <<" ", "nogui">>

\* The fallback of read_server_meta from start.sh, lines 540-550.
FromScript(sh) ==
    [mc_version |-> Unknown,
     loader |-> <<"vanilla">>,
     jar |-> IF sh.jar # <<>> THEN JarMatch(sh) ELSE Unknown,
     memory |-> IF sh.xmx # <<>> THEN sh.xmx ELSE Unknown]

\* Mutant: the launch script is asked first.
read_server_meta_ScriptFirst(meta, sh) ==
    IF sh # NoScript THEN FromScript(sh)
    ELSE IF meta # NoMeta /\ Parses(meta) THEN Loads(meta)
    ELSE EmptyDict
\* read_server_meta(folder), lines 532-551.
read_server_meta(meta, sh) ==
    IF meta # NoMeta /\ Parses(meta) THEN Loads(meta)
    ELSE IF sh # NoScript THEN FromScript(sh)
    ELSE EmptyDict

\* What the other components do while the descriptor store acts: nothing.
StoreOnly ==
    /\ UNCHANGED <<tailVars, ramVars, updVars>>
    /\ FetchFrozen /\ NameFrozen /\ SupFrozen

\* The caller reads the descriptor of the instance.
ReadMeta ==
    /\ provPc = "idle"
    /\ metaOut' = read_server_meta(metaFile, startSh)
    /\ UNCHANGED <<metaFile, startSh, provPc, provArgs, provRes, metaWrites, provCalls, instJars>>
    /\ StoreOnly

\* create_server_folder returns (or raises).
ProvEnds(how) ==
    /\ provRes' = how
    /\ provPc' = "idle"

\* create_server_folder(base, name, version_id, jar_url, java, memory, loader),
\* lines 467-497: the directories are made and the jar is fetched; a failed
\* download or loader installation returns False.
ProvBegin(a) ==
    /\ provPc = "idle"
    /\ provCalls < MaxProv
    /\ provCalls' = provCalls + 1
    /\ provArgs' = a
    /\ metaWrites' = 0
    /\ \/ \* the jar is copied into the instance directory
          /\ instJars' = instJars \cup {JarName(a)}
          /\ provPc' = "files"
          /\ provRes' = "pending"
       \/ \* download_with_resume returns False, get_mod_loader_jar None
          /\ UNCHANGED instJars
          /\ ProvEnds("false")
       \/ \* download_with_resume raises (the body cannot be read to its end)
          /\ UNCHANGED instJars
          /\ ProvEnds("raised")
    /\ metaOut' = NoDict   \* the local meta of an earlier handler is gone
    /\ UNCHANGED <<metaFile, startSh>>
    /\ StoreOnly

\* Lines 500-515: eula.txt, server.properties and the launch scripts.
ProvFiles ==
    /\ provPc = "files"
    /\ \/ /\ startSh' = Generated(provArgs)
          /\ provPc' = "meta"
          /\ UNCHANGED provRes
       \/ \* a write raises before start.sh is reached
          /\ UNCHANGED startSh
          /\ ProvEnds("raised")
    /\ UNCHANGED <<metaFile, metaOut, provArgs, metaWrites, provCalls, instJars>>
    /\ StoreOnly

\* Lines 518-529: write_text(meta, json.dumps(meta_data)) and return True.
ProvMeta ==
    /\ provPc = "meta"
    /\ metaWrites' = metaWrites + 1
    /\ \/ /\ metaFile' = Dumps(MetaData(provArgs))
          /\ ProvEnds("true")
       \/ \* the file cannot be opened for writing
          /\ UNCHANGED metaFile
          /\ ProvEnds("raised")
       \/ \* the write raises after the file was opened: it is left empty
          /\ metaFile' = <<>>
          /\ ProvEnds("raised")
    /\ UNCHANGED <<startSh, metaOut, provArgs, provCalls, instJars>>
    /\ StoreOnly

\* The operator replaces start.sh by a script of their own.
ScriptEdited(sh) ==
    /\ provPc = "idle"
    /\ startSh # NoScript
    /\ startSh' = sh
    /\ metaOut' = NoDict   \* between two handlers of the menu
    /\ UNCHANGED <<metaFile, provPc, provArgs, provRes, metaWrites, provCalls, instJars>>
    /\ StoreOnly

\* What is left of a descriptor that was damaged: nothing, or its beginning.
Damaged(meta) == {<<>>, Take(meta, 3)}
\* All that can be left of a descriptor.
Losses == {NoMeta} \cup UNION {Damaged(Dumps(MetaData(a))) : a \in ProvArgs}

\* The descriptor is deleted, or damaged so that json.loads rejects it.
RecordLost(lost) ==
    /\ provPc = "idle"
    /\ metaFile # NoMeta /\ Parses(metaFile)
    /\ lost \in {NoMeta} \cup Damaged(metaFile)
    /\ metaFile' = lost
    /\ metaOut' = NoDict   \* between two handlers of the menu
    /\ UNCHANGED <<startSh, provPc, provArgs, provRes, metaWrites, provCalls, instJars>>
    /\ StoreOnly

\* The descriptors a directory can hold: none, one written by an earlier
\* provisioning, the beginning of one (a write that was cut short), or an
\* object without members.
MetaFiles ==
    {NoMeta, <<Open, Close>>}
      \cup {Dumps(MetaData(a)) : a \in ProvArgs}
      \cup {Take(Dumps(MetaData(a)), k) : a \in ProvArgs, k \in {0, 3}}

\* The jar that the descriptor names, if it names one.
NamedJars(meta) ==
    IF meta # NoMeta /\ Parses(meta) /\ "jar" \in DOMAIN Loads(meta)
      THEN {Loads(meta).jar} ELSE {}

InitMeta ==
    /\ metaFile \in MetaFiles
    /\ startSh \in {NoScript} \cup OwnScripts \cup {Generated(a) : a \in ProvArgs}
    /\ metaOut = NoDict
    /\ provPc = "idle"
    /\ provArgs = CHOOSE a \in ProvArgs : TRUE
    /\ provRes = "none"
    /\ metaWrites = 0
    /\ provCalls = 0
    /\ instJars = NamedJars(metaFile)
    /\ TailIdle /\ RamIdle /\ UpdIdle
    /\ FetchIdle /\ NameIdle /\ SupIdle

NextMeta ==
    \/ ReadMeta
    \/ \E a \in ProvArgs : ProvBegin(a)
    \/ ProvFiles
    \/ ProvMeta
    \/ \E sh \in OwnScripts : ScriptEdited(sh)

SpecMeta == InitMeta /\ [][NextMeta]_vars

\* The descriptor store in a directory whose descriptor can get lost.
NextLoss ==
    \/ NextMeta
    \/ \E lost \in Losses : RecordLost(lost)

SpecLoss == InitMeta /\ [][NextLoss]_vars


\* The record at mcsmeta.json can be used: it is there and json.loads takes it.
Usable == metaFile # NoMeta /\ Parses(metaFile)

\* C23: every read of the descriptor returns all four fields (version label,
\* loader kind, artifact filename, memory), whatever the persisted record
\* (absent, malformed, well-formed) and the launch script (absent, with or
\* without the -jar and -Xmx tokens) are; without a usable record the loader is
\* vanilla and the version label and each field the script does not give hold
\* the sentinel "?".
C23_ReadTotal ==
    [][ReadMeta =>
         /\ DOMAIN metaOut' = MetaKeys
         /\ ~Usable =>
              /\ metaOut'.loader = <<"vanilla">>
              /\ metaOut'.mc_version = Unknown
              /\ (startSh = NoScript \/ startSh.jar = <<>>) => metaOut'.jar = Unknown
              /\ (startSh = NoScript \/ startSh.xmx = <<>>) => metaOut'.memory = Unknown]_vars


\* The last call of create_server_folder returned True and none is under way.
Provisioned == provPc = "idle" /\ provRes = "true"

\* C24: a read after provisioning has written the descriptor returns the
\* version label, loader kind, artifact filename and memory that were written,
\* and a well-formed record decides the result whatever the launch script
\* holds.
C24_RoundTrip ==
    [][ReadMeta =>
         /\ Provisioned =>
              /\ DOMAIN metaOut' = MetaKeys
              /\ metaOut'.mc_version = provArgs.version
              /\ metaOut'.loader = provArgs.loader
              /\ metaOut'.jar = JarName(provArgs)
              /\ metaOut'.memory = normalize_ram(provArgs.memory, <<"4", "G">>)
         /\ Usable =>
              \A sh \in {NoScript} \cup OwnScripts :
                  metaOut' = read_server_meta(metaFile, sh)]_vars

\* A descriptor written for a fabric instance of version "a b" with memory
\* typed as 2048mb was read back while start.sh is a script of the operator's
\* own that names another jar and another heap.
C24_Witness ==
    /\ Provisioned
    /\ provArgs = [version |-> <<"a", " ", "b">>, loader |-> <<"fabric">>,
                   memory |-> <<"2", "0", "4", "8", "m", "b">>]
    /\ startSh = Script(<<"1", "G">>, <<"own.jar">>, FALSE)
    /\ metaOut # NoDict
    /\ metaOut.loader = <<"fabric">>
    /\ metaOut.memory = <<"2", "0", "4", "8", "M">>


\* A step in which create_server_folder ends.
ProvEnding == provPc # "idle" /\ provPc' = "idle"

\* C25: the descriptor file changes only in the write of a provisioning call,
\* one call writes at most once, and a call that created or changed the file
\* is a call that succeeded.
C25_WrittenOnSuccess ==
    [][/\ metaFile' # metaFile => provPc = "meta"
       /\ metaWrites' <= 1
       /\ (ProvEnding /\ metaFile' # metaFile) => provRes' = "true"]_vars


\* The text as the operator meant it: without blanks, in upper case, without
\* the optional final B.
Meant(x) == DropFinalB(RemoveSpaces(Upper(x)))
\* The text is a magnitude followed by one of the units K, M, G.
ExplicitUnit(x) == RamMatches(Meant(x)) /\ UnitOf(Meant(x)) # <<>>

\* C31: a magnitude n >= 0 written with a unit K, M or G (any case, optional
\* final B, blanks anywhere) is normalized to the same magnitude with that
\* same unit in upper case; the unit is never replaced by another one.
C31_UnitKept ==
    (ramOut # NoRam /\ ExplicitUnit(ramIn)) =>
        /\ UnitOf(ramOut) = UnitOf(Meant(ramIn))
        /\ IntOf(NumOf(ramOut)) = IntOf(NumOf(Meant(ramIn)))


\* An instance provisioned with the memory typed as x.
WithMemory(x) == [version |-> <<"a">>, loader |-> <<"vanilla">>, memory |-> x]
\* What act_start reads from the intact descriptor of that instance.
ReadBack(x) ==
    read_server_meta(Dumps(MetaData(WithMemory(x))), Generated(WithMemory(x)))

\* C32: normalizing a result of normalize_ram again, with the same canonical
\* fallback, gives the same text; so the memory in the descriptor, the heap in
\* the launch script and the heap on the command line that start builds from
\* the descriptor are one and the same text.
C32_Idempotent ==
    ramOut # NoRam =>
        /\ normalize_ram(ramOut, ramFallback) = ramOut
        /\ normalize_ram(ramFallback, ramFallback) = ramFallback
        /\ ReadBack(ramIn).memory = normalize_ram(ramIn, <<"4", "G">>)
        /\ Generated(WithMemory(ramIn)).xmx = ReadBack(ramIn).memory
        /\ StartHeap(ReadBack(ramIn).memory) = ReadBack(ramIn).memory

\* "7mb" was normalized to "7M", a text that differs from what was typed.
C32_Witness ==
    /\ ramIn = <<"7", "m", "b">>
    /\ ramFallback = <<"4", "G">>
    /\ ramOut = <<"7", "M">>


\* What a read of the intact record of the last provisioning returns.
Intact == read_server_meta(Dumps(MetaData(provArgs)), startSh)

\* C33: for an instance that a successful provisioning produced, a read after
\* the persisted record was removed or damaged returns the artifact filename
\* and the memory that a read of the intact record returns.
C33_FallbackAgrees ==
    [][(ReadMeta /\ Provisioned /\ ~Usable /\ startSh = Generated(provArgs)) =>
         /\ DOMAIN metaOut' = MetaKeys
         /\ metaOut'.jar = Intact.jar
         /\ metaOut'.memory = Intact.memory]_vars

\* The descriptor of a fabric instance of version "a b", memory typed as
\* 2048mb, was lost and then read from the generated start.sh.
C33_Witness ==
    /\ Provisioned
    /\ ~Usable
    /\ provArgs = [version |-> <<"a", " ", "b">>, loader |-> <<"fabric">>,
                   memory |-> <<"2", "0", "4", "8", "m", "b">>]
    /\ startSh = Generated(provArgs)
    /\ metaOut # NoDict
    /\ DOMAIN metaOut = MetaKeys
    /\ metaOut.mc_version = Unknown
    /\ metaOut.jar = <<"fabric-server-", "a", " ", "b", ".jar">>
    /\ metaOut.memory = <<"2", "0", "4", "8", "M">>


\* A step in which create_server_folder ends in its jar step: the artifact
\* could not be acquired.
AcquireFailed == provCalls' = provCalls + 1 /\ provPc' = "idle"

\* C34: after every step of provisioning the jar that an existing descriptor
\* names is in the instance directory; an attempt that fails because the
\* artifact could not be acquired returns False, writes neither descriptor nor
\* launch script and leaves an earlier descriptor as it was.
C34_ProvisioningInvariant ==
    [][/\ NamedJars(metaFile') \subseteq instJars'
       /\ AcquireFailed =>
            /\ provRes' = "false"
            /\ metaFile' = metaFile
            /\ startSh' = startSh]_vars


\* =============================================================== self update
\* The characters of a CURRENT_VERSION; "BOM" and "CR" stand for the byte order
\* mark and the carriage return.
VerChars == {"v", "1", "2", ".", " "}
VerTexts ==
    SeqsUpTo(VerChars, MaxVer)
      \cup { <<"1", ".", "6", ".", "0">>, <<"1", ".", "6", ".", "1">>,
             <<"v", "1", ".", "1", "0">>, <<"BOM", "2", ".", "0", "CR">>,
             <<"1", ".", "2", ".", "3", ".", "4">> }
\* CURRENT_VERSION of the running program (line 23, and other releases).
Running == { <<"1", ".", "6", ".", "0">>, <<"1", ".", "2">>, <<"2">> }

\* No CURRENT_VERSION in the module; a CURRENT_VERSION that is no string.
NoVersion == <<"none">>
NotText == <<"no string">>
\* _parse_version returns None.
NoParse == <<-1>>

RECURSIVE LStripBom(_)
\* s.lstrip("\ufeff")
LStripBom(s) == IF s # <<>> /\ s[1] = "BOM" THEN LStripBom(Tail(s)) ELSE s

\* .replace("\r", "")
RemoveCR(s) == SelectSeq(s, LAMBDA c : c # "CR")

RECURSIVE SplitDots(_)
\* s.split('.')
SplitDots(s) ==
    IF \A k \in 1..Len(s) : s[k] # "." THEN <<s>>
    ELSE LET d == CHOOSE k \in 1..Len(s) : s[k] = "." /\ \A m \in 1..(k - 1) : s[m] # "."
         IN  <<SubSeq(s, 1, d - 1)>> \o SplitDots(SubSeq(s, d + 1, Len(s)))

\* A non-empty run of decimal digits.
AllDigits(s) == s # <<>> /\ \A k \in 1..Len(s) : IsDigit(s[k])

\* Without the optional leading v.
DropV(s) == IF s # <<>> /\ s[1] = "v" THEN Tail(s) ELSE s

\* SEMVER_RE = ^v?\d+(?:\.\d+){0,2}$
SEMVER_RE(s) ==
    LET parts == SplitDots(DropV(s))
    IN  Len(parts) <= 3 /\ \A k \in 1..Len(parts) : AllDigits(parts[k])

\* _parse_version(s) for a string s, lines 56-66.
_parse_version(s) ==
    IF s = <<>> THEN NoParse
    ELSE LET t == RemoveCR(StripSpace(LStripBom(s)))
         IN  IF ~SEMVER_RE(t) THEN NoParse
             ELSE LET parts == SplitDots(DropV(t))
                  IN  [k \in 1..3 |-> IF k <= Len(parts) THEN IntOf(parts[k]) ELSE 0]

\* nv <= cv for two tuples of three numbers.
TupleLeq(a, b) ==
    \/ a[1] < b[1]
    \/ a[1] = b[1] /\ a[2] < b[2]
    \/ a[1] = b[1] /\ a[2] = b[2] /\ a[3] <= b[3]

\* What _http_get(REMOTE_MANAGER_URL) gives: an error, a page of HTML, or a
\* file; of a file: whether exec_module runs it, its CURRENT_VERSION and
\* whether it has 1000 bytes or more.
Fetched(kind, loads, version, big) ==
    [kind |-> kind, loads |-> loads, version |-> version, big |-> big]
Downloads ==
    { Fetched("error", FALSE, NoVersion, FALSE), Fetched("html", FALSE, NoVersion, FALSE) }
      \cup { Fetched("file", FALSE, NoVersion, big) : big \in BOOLEAN }
      \cup { Fetched("file", TRUE, v, big) :
                v \in VerTexts \cup {NoVersion, NotText}, big \in BOOLEAN }

\* The try block of lines 82-96 ends with "return False": the version is
\* unparseable or not newer.
NotNewer(got, cur) ==
    LET nv == _parse_version(got.version)
        cv == _parse_version(cur)
    IN  nv = NoParse \/ cv = NoParse \/ TupleLeq(nv, cv)

\* The suffix of tmp (line 78: dest.with_suffix(dest.suffix + ".new")) and the
\* suffixes for which importlib finds a loader.
TmpSuffix == ".new"
SourceSuffixes == {".py", ".pyc", ".so"}
\* spec_from_file_location("updated_manager", str(tmp)) returns a spec; it
\* returns None for a file name whose suffix has no loader.
SpecFound == TmpSuffix \in SourceSuffixes

\* The try block of lines 82-96 raises: module_from_spec is given None,
\* exec_module raises, the module has no (or an empty) CURRENT_VERSION, or
\* _parse_version is given no string.
VerifyRaises(got) ==
    \/ ~SpecFound
    \/ ~got.loads
    \/ got.version \in {NoVersion, NotText, <<>>}

\* "if tmp.stat().st_size < 1000" (line 100)
TooSmall(got) == ~got.big

\* self_update(), lines 68-119.
self_update ==
    /\ updRes = "none"
    /\ IF updGot.kind \in {"error", "html"}
         THEN \* _http_get raises, or the data begin with "<"
              /\ updRes' = "false"
              /\ UNCHANGED updProg
         ELSE IF VerifyRaises(updGot)
         THEN IF TooSmall(updGot)
                THEN /\ updRes' = "false"
                     /\ UNCHANGED updProg
                ELSE \* "Proceeding anyway": tmp.replace(dest) and os.execv,
                     \* which does not return, or raises
                     /\ updProg' = "new"
                     /\ updRes' \in {"restarted", "false"}
         ELSE IF NotNewer(updGot, updCur)
         THEN /\ updRes' = "false"
              /\ UNCHANGED updProg
         ELSE /\ updProg' = "new"
              /\ updRes' \in {"restarted", "false"}
    /\ UNCHANGED <<updCur, updGot>>
    /\ UNCHANGED <<tailVars, ramVars, metaVars>>
    /\ FetchFrozen /\ NameFrozen /\ SupFrozen

InitUpdate ==
    /\ updCur \in Running
    /\ updGot \in Downloads
    /\ updProg = "old"
    /\ updRes = "none"
    /\ TailIdle /\ RamIdle /\ MetaIdle
    /\ FetchIdle /\ NameIdle /\ SupIdle

NextUpdate == self_update

SpecUpdate == InitUpdate /\ [][NextUpdate]_vars


\* The downloaded file carries a CURRENT_VERSION that parses and is strictly
\* greater than the running one.
StrictlyNewer ==
    /\ updGot.kind = "file"
    /\ updGot.loads
    /\ updGot.version \in VerTexts
    /\ _parse_version(updGot.version) # NoParse
    /\ _parse_version(updCur) # NoParse
    /\ ~TupleLeq(_parse_version(updGot.version), _parse_version(updCur))

\* C35: self_update replaces the program file only when the downloaded file's
\* CURRENT_VERSION parses and is strictly greater than the running one; in
\* every other case the file stays as it is and self_update returns False.
C35_OnlyNewer ==
    updRes # "none" =>
        /\ updProg = "new" => StrictlyNewer
        /\ ~StrictlyNewer => (updProg = "old" /\ updRes = "false")

=============================================================================
